---- MODULE Spec2Model ----
(***************************************************************************)
(* AdaLink: the Programmer operations (JLink and the OpenOCD-based SAMD21  *)
(* and ATSAMD21G18 programmers), the parsing of the tools' text output,    *)
(* and the dispatcher Core._callback / main that calls them in order.      *)
(*                                                                         *)
(* Text is modelled as sequences: a script is a sequence of commands, a    *)
(* tool output a sequence of lines or tokens, a hex number a sequence of   *)
(* one-character strings.  Python values are records: a call either        *)
(* returns ([kind |-> "return", value |-> v]) or raises                    *)
(* ([kind |-> "raise", exc |-> class, msg |-> message]).                   *)
(***************************************************************************)
EXTENDS Integers, Sequences, FiniteSets, TLC

VARIABLES
    phase,    \* position of the operation under call: "idle", "called", "returned", "gated"
    call,     \* the operation called and its arguments
    proc,     \* what the external tool process did: timed out or wrote an output
    script,   \* the command list the operation handed to run_commands
    result,   \* what the operation returned or raised
    args,     \* the parsed command line of one invocation (argparse namespace)
    pc,       \* position of main / Core._callback in the invocation
    calls,    \* programmer operations executed so far in the invocation, in order
    raised,   \* the exception that ended the invocation, if any
    stdout,   \* what the invocation printed, in order
    exit,     \* exit status of the process: -1 while running
    host,     \* the machine: its platform name, and whether the JLink executable resolves
    files,    \* the script files on disk, by name: their text and whether still open
    procs     \* the tool processes spawned so far, in order: their script file and state

vars == <<phase, call, proc, script, result, args, pc, calls, raised, stdout, exit,
          host, files, procs>>

\* ---------------------------------------------------------------- bounds

\* Most hex files, and most bin files, in one program() call.
MaxFiles == 2
\* Most lines in the tool output of a program() run.
MaxLines == 3

\* ------------------------------------------------------- Python values

Return(v) == [kind |-> "return", value |-> v]

Raise(e, m) == [kind |-> "raise", exc |-> e, msg |-> m]

None == "None"

NoCall == [op |-> "none"]

NoProc == [timedOut |-> FALSE, output |-> <<>>]

NoResult == [kind |-> "none"]

\* Error messages of the AdaLinkError raised in the sources.
MsgTimeout == "JLink process exceeded timeout!"

MsgVerify == "Failed to verify all files were programmed!"

\* ------------------------------------------------------ hex formatting

HexChars == <<"0", "1", "2", "3", "4", "5", "6", "7",
              "8", "9", "A", "B", "C", "D", "E", "F">>

\* format(n, 'X'): the upper-case hex digits of n >= 0, most significant first.
RECURSIVE FormatX(_)
FormatX(n) ==
    IF n < 16 THEN <<HexChars[n + 1]>>
    ELSE FormatX(n \div 16) \o <<HexChars[(n % 16) + 1]>>

\* Zero padding on the left up to 8 characters; longer text is left alone.
RECURSIVE ZeroPad8(_)
ZeroPad8(s) == IF Len(s) >= 8 THEN s ELSE ZeroPad8(<<"0">> \o s)

\* '{0:08X}'.format(n)
Format08X(n) == ZeroPad8(FormatX(n))

\* ------------------------------------------------- running the tools

\* JLink.run_filename: communicate(timeout=...) raises subprocess.TimeoutExpired
\* on expiry; the handler names the builtin TimeoutError, which is not a base
\* class of it, so the exception propagates as raised and the process is left.
TimeoutExpiredIsTimeoutError == FALSE

JLink_run_filename(p) ==
    IF p.timedOut
    THEN IF TimeoutExpiredIsTimeoutError
         THEN Raise("AdaLinkError", MsgTimeout)
         ELSE Raise("TimeoutExpired", "")
    ELSE Return(p.output)

\* JLink.run_commands: writes the commands to a script file and runs it.
JLink_run_commands(commands, p) == JLink_run_filename(p)

\* run_commands of the OpenOCD-based STLink / RasPi2 base programmers
\* (programmers/stlink.py, programmers/raspi2.py): on expiry the process is
\* terminated and the call fails with the Timeout error.
OpenOCD_run_commands(commands, p) ==
    IF p.timedOut THEN Raise("AdaLinkError", "OpenOCD process exceeded timeout!")
    ELSE Return(p.output)

\* ------------------------------------------------------------- program

Variants == {"JLink", "STLink_SAMD21", "RasPi2_SAMD21",
             "STLink_ATSAMD21G18", "RasPi2_ATSAMD21G18"}

OpenOCDVariants == Variants \ {"JLink"}

\* A command of a script: the verb, the image path, the address text, the
\* image format.  Commands without operands leave them empty.
Cmd(c) == [cmd |-> c, path |-> <<>>, addr |-> <<>>, fmt |-> ""]

\* os.path.abspath(f)
abspath(f) == <<"abs", f>>

\* escape_path of the OpenOCD base programmers: quotes an absolute path.
escape_path(p) == <<"esc">> \o p

\* '0x{0:08X}'.format(addr)
Format0x08X(addr) == <<"0", "x">> \o Format08X(addr)

\* JLink.program, the command list.
JLinkLoadHex(hex_files) ==
    [i \in 1..Len(hex_files) |->
        [cmd |-> "loadfile", path |-> abspath(hex_files[i]), addr |-> <<>>, fmt |-> ""]]

JLinkLoadBin(bin_files) ==
    [i \in 1..Len(bin_files) |->
        [cmd |-> "loadbin", path |-> abspath(bin_files[i][1]),
         addr |-> Format0x08X(bin_files[i][2]), fmt |-> ""]]

JLink_program_commands(hex_files, bin_files) ==
    <<Cmd("r")>> \o JLinkLoadHex(hex_files) \o JLinkLoadBin(bin_files)
        \o <<Cmd("r"), Cmd("g"), Cmd("q")>>

\* The program() of the four OpenOCD-based programmers, the command list.
OpenOCDHex(verb, hex_files) ==
    [i \in 1..Len(hex_files) |->
        [cmd |-> verb, path |-> escape_path(abspath(hex_files[i])),
         addr |-> <<"0">>, fmt |-> "ihex"]]

OpenOCDBin(verb, bin_files) ==
    [i \in 1..Len(bin_files) |->
        [cmd |-> verb, path |-> escape_path(abspath(bin_files[i][1])),
         addr |-> Format0x08X(bin_files[i][2]), fmt |-> "bin"]]

\* A variant of the command list that verifies the bin images before it loads them.
OpenOCD_program_commands_VerifyEarly(hex_files, bin_files) ==
    <<Cmd("init"), Cmd("reset init")>>
        \o OpenOCDHex("load_image", hex_files)
        \o OpenOCDHex("verify_image", hex_files)
        \o OpenOCDBin("verify_image", bin_files)
        \o OpenOCDBin("load_image", bin_files)
        \o <<Cmd("reset run"), Cmd("exit")>>

OpenOCD_program_commands(hex_files, bin_files) ==
    <<Cmd("init"), Cmd("reset init")>>
        \o OpenOCDHex("load_image", hex_files)
        \o OpenOCDBin("load_image", bin_files)
        \o OpenOCDHex("verify_image", hex_files)
        \o OpenOCDBin("verify_image", bin_files)
        \o <<Cmd("reset run"), Cmd("exit")>>

STLink_SAMD21_program_commands(hex_files, bin_files) ==
    OpenOCD_program_commands(hex_files, bin_files)

RasPi2_SAMD21_program_commands(hex_files, bin_files) ==
    OpenOCD_program_commands(hex_files, bin_files)

STLink_ATSAMD21G18_program_commands(hex_files, bin_files) ==
    OpenOCD_program_commands(hex_files, bin_files)

RasPi2_ATSAMD21G18_program_commands(hex_files, bin_files) ==
    OpenOCD_program_commands(hex_files, bin_files)

program_commands(variant, hex_files, bin_files) ==
    CASE variant = "JLink" -> JLink_program_commands(hex_files, bin_files)
      [] variant = "STLink_SAMD21" -> STLink_SAMD21_program_commands(hex_files, bin_files)
      [] variant = "RasPi2_SAMD21" -> RasPi2_SAMD21_program_commands(hex_files, bin_files)
      [] variant = "STLink_ATSAMD21G18" ->
            STLink_ATSAMD21G18_program_commands(hex_files, bin_files)
      [] variant = "RasPi2_ATSAMD21G18" ->
            RasPi2_ATSAMD21G18_program_commands(hex_files, bin_files)

\* A line of tool output is a sequence of pieces of text; x.startswith('verified ').
StartsWithVerified(line) == Len(line) > 0 /\ line[1] = "verified "

\* filter(f, lines): in Python 3 a lazy filter object, not a list.
PyFilter(lines) == [type |-> "filter", items |-> SelectSeq(lines, StartsWithVerified)]

\* len(x): defined for a list; a filter object has no len().
PyLen(x) ==
    IF x.type = "list" THEN Return(Len(x.items))
    ELSE Raise("TypeError", "object of type 'filter' has no len()")

\* The verification after the run (samd21.py 97-104 and its three copies).
OpenOCD_verify(output, hex_files, bin_files) ==
    LET verified == PyLen(PyFilter(output))
    IN  IF verified.kind = "raise" THEN verified
        ELSE IF verified.value # Len(hex_files) + Len(bin_files)
             THEN Raise("AdaLinkError", MsgVerify)
             ELSE Return(None)

OpenOCD_program(variant, hex_files, bin_files, p) ==
    LET out == OpenOCD_run_commands(program_commands(variant, hex_files, bin_files), p)
    IN  IF out.kind = "raise" THEN out
        ELSE OpenOCD_verify(out.value, hex_files, bin_files)

\* JLink.program: runs the commands and drops the output.
JLink_program(hex_files, bin_files, p) ==
    LET out == JLink_run_commands(JLink_program_commands(hex_files, bin_files), p)
    IN  IF out.kind = "raise" THEN out ELSE Return(None)

program(variant, hex_files, bin_files, p) ==
    IF variant = "JLink" THEN JLink_program(hex_files, bin_files, p)
    ELSE OpenOCD_program(variant, hex_files, bin_files, p)

\* ------------------------------------------- inputs of the program() calls

SeqsUpTo(S, n) == UNION {[1..k -> S] : k \in 0..n}

HexFileNames == {"a.hex", "b.hex"}

BinFileArgs == {<<"c.bin", 8192>>, <<"d.bin", 0>>}

OutputLines == {<<"verified ", "4096 bytes in 0.5s">>,
                <<"Error: ", "checksum mismatch">>,
                <<"** ", "verified ", "**">>}

ProgramCalls ==
    [op : {"program"}, variant : Variants,
     hex_files : SeqsUpTo(HexFileNames, MaxFiles),
     bin_files : SeqsUpTo(BinFileArgs, MaxFiles)]

ProgramProcs ==
    [timedOut : {FALSE}, output : SeqsUpTo(OutputLines, MaxLines)]
        \cup {[timedOut |-> TRUE, output |-> <<>>]}

\* No script file on disk.
NoFiles == [n \in {} |-> [text |-> <<>>, open |-> FALSE]]

\* A Linux machine with the JLink executable on its path.
LinuxHost == [system |-> "Linux", exe |-> TRUE]

IdleInvocation ==
    /\ host = LinuxHost
    /\ files = NoFiles
    /\ procs = <<>>
    /\ args = [programmer |-> "none"]
    /\ pc = "idle"
    /\ calls = <<>>
    /\ raised = NoResult
    /\ stdout = <<>>
    /\ exit = -1

InitProgram ==
    /\ phase = "called"
    /\ call \in ProgramCalls
    /\ proc = NoProc
    /\ script = <<>>
    /\ result = NoResult
    /\ IdleInvocation

\* One call of program(hex_files, bin_files) on a programmer of the variant.
Program ==
    /\ phase = "called"
    /\ call.op = "program"
    /\ \E p \in ProgramProcs :
        /\ proc' = p
        /\ script' = program_commands(call.variant, call.hex_files, call.bin_files)
        /\ result' = program(call.variant, call.hex_files, call.bin_files, p)
    /\ phase' = "returned"
    /\ UNCHANGED <<host, files, procs, call, args, pc, calls, raised, stdout, exit>>

NextProgram == Program

SpecProgram == InitProgram /\ [][NextProgram]_vars

\* -------------------------------------------------------- is_connected

MsgNoJLink == "Could not find a JLink programmer, is it connected?"

MsgNoVoltage == "JLink output lacks voltage information"

MsgLowVoltage == "JLink reference voltage is {}V, it the chip powered?"

MsgNotFound == "Could not find {0}, is it connected?"

\* The output of the connect script is a sequence of tokens: the text FAILED,
\* the text 'Found <target>' for the target of this programmer, a 'Found' of
\* another target, a 'VTref=<num>V' reading whose <num> is a non-empty text of
\* digits and dots, any other text.
Tok(k) == [kind |-> k, num |-> <<>>]

VTref(num) == [kind |-> "VTref", num |-> num]

DecChars == <<"0", "1", "2", "3", "4", "5", "6", "7", "8", "9">>

DecVal(c) == (CHOOSE i \in 1..10 : DecChars[i] = c) - 1

RECURSIVE DecInt(_)
DecInt(s) ==
    IF Len(s) = 0 THEN 0
    ELSE DecInt(SubSeq(s, 1, Len(s) - 1)) * 10 + DecVal(s[Len(s)])

\* The first three decimals of the fraction digits s, as thousandths.
Thousandths(s) ==
    DecInt(SubSeq(s \o <<"0", "0", "0">>, 1, 3))

\* float(s) of a text of digits and dots, in thousandths: a text with more than
\* one dot, or with no digit, is no number.
PyFloat(s) ==
    LET dots == {i \in 1..Len(s) : s[i] = "."}
    IN  IF Cardinality(dots) > 1 \/ Cardinality(dots) = Len(s)
        THEN Raise("ValueError", "could not convert string to float")
        ELSE IF dots = {}
             THEN Return(DecInt(s) * 1000)
             ELSE LET d == CHOOSE i \in dots : TRUE
                  IN  Return(DecInt(SubSeq(s, 1, d - 1)) * 1000
                             + Thousandths(SubSeq(s, d + 1, Len(s))))

\* 'FAILED' in output
ContainsFailed(output) == \E i \in 1..Len(output) : output[i].kind = "FAILED"

\* A search for the text 'Found' alone, whatever target follows it.
ContainsFound_AnyTarget(output) ==
    \E i \in 1..Len(output) : output[i].kind \in {"Found", "FoundOther"}

\* output.find('Found <target>') != -1
ContainsFound(output) == \E i \in 1..Len(output) : output[i].kind = "Found"

\* re.search(r'VTref=([0-9.]+)V', output): the first reading, or no match.
VoltageMatch(output) ==
    LET at == {i \in 1..Len(output) : output[i].kind = "VTref"}
    IN  IF at = {} THEN <<>>
        ELSE <<output[CHOOSE i \in at : \A j \in at : i <= j].num>>

\* A threshold of 0.1 V.
MinVoltage_Tenth == 10 * 10

\* The threshold of the reference voltage, 1 V, in thousandths.
MinVoltage == 1000

\* JLink.is_connected, the checks on the output of the connect script.
JLink_is_connected_output(output) ==
    IF ContainsFailed(output) THEN Raise("AdaLinkError", MsgNoJLink)
    ELSE LET voltage_match == VoltageMatch(output)
         IN  IF voltage_match = <<>> THEN Raise("AdaLinkError", MsgNoVoltage)
             ELSE LET ref_voltage == PyFloat(voltage_match[1])
                  IN  IF ref_voltage.kind = "raise" THEN ref_voltage
                      ELSE IF ref_voltage.value < MinVoltage
                           THEN Raise("AdaLinkError", MsgLowVoltage)
                           ELSE Return(ContainsFound(output))

JLink_is_connected_commands == <<Cmd("connect"), Cmd("q")>>

JLink_is_connected(p) ==
    LET out == JLink_run_commands(JLink_is_connected_commands, p)
    IN  IF out.kind = "raise" THEN out ELSE JLink_is_connected_output(out.value)

\* Core._callback, lines 54-55: a false result becomes the not-found error, an
\* exception of is_connected propagates, a true result lets the callback go on.
ConnectGate(r) ==
    IF r.kind = "raise" THEN r
    ELSE IF ~r.value THEN Raise("AdaLinkError", MsgNotFound)
    ELSE NoResult

\* ------------------------------------------ inputs of the is_connected calls

\* Most tokens in the output of the connect script.
MaxTokens == 3

VoltageTexts == {<<"0", ".", "0", "0", "0">>, <<"0", ".", "9", "9", "9">>,
                 <<"1", ".", "0", "0", "0">>, <<"3", ".", "3">>,
                 <<"1", ".", "2", ".", "3">>}

ConnectTokens ==
    {Tok("FAILED"), Tok("Found"), Tok("FoundOther"), Tok("other")}
        \cup {VTref(v) : v \in VoltageTexts}

ConnectProcs ==
    [timedOut : {FALSE}, output : SeqsUpTo(ConnectTokens, MaxTokens)]
        \cup {[timedOut |-> TRUE, output |-> <<>>]}

InitConnect ==
    /\ phase = "called"
    /\ call = [op |-> "is_connected", variant |-> "JLink"]
    /\ proc \in ConnectProcs
    /\ script = <<>>
    /\ result = NoResult
    /\ IdleInvocation

\* One call of JLink.is_connected().
Connect ==
    /\ phase = "called"
    /\ call.op = "is_connected"
    /\ script' = JLink_is_connected_commands
    /\ result' = JLink_is_connected(proc)
    /\ phase' = "returned"
    /\ UNCHANGED <<host, files, procs, call, proc, args, pc, calls, raised, stdout, exit>>

\* The caller's test of the result.
Gate ==
    /\ phase = "returned"
    /\ call.op = "is_connected"
    /\ raised' = ConnectGate(result)
    /\ phase' = "gated"
    /\ UNCHANGED <<host, files, procs, call, proc, script, result, args, pc, calls, stdout, exit>>

NextConnect == Connect \/ Gate

SpecConnect == InitConnect /\ [][NextConnect]_vars

\* ------------------------------------------------------------- readmem

MsgNoMem == "Could not find expected memory value, are the JLink and board connected?"

LowerHexChars == <<"0", "1", "2", "3", "4", "5", "6", "7",
                   "8", "9", "a", "b", "c", "d", "e", "f">>

\* c.upper() of a character.
UpperChar(c) ==
    IF \E i \in 1..16 : LowerHexChars[i] = c
    THEN HexChars[CHOOSE i \in 1..16 : LowerHexChars[i] = c]
    ELSE c

\* s.lower() of a text of hex digits.
LowerText(s) ==
    [i \in 1..Len(s) |->
        IF \E k \in 1..16 : HexChars[k] = s[i]
        THEN LowerHexChars[CHOOSE k \in 1..16 : HexChars[k] = s[i]]
        ELSE s[i]]

\* Two texts equal up to the case of their letters (re.IGNORECASE).
EqIgnoreCase(s, t) ==
    /\ Len(s) = Len(t)
    /\ \A i \in 1..Len(s) : UpperChar(s[i]) = UpperChar(t[i])

IsHexChar(c) == \E i \in 1..16 : HexChars[i] = UpperChar(c)

HexVal(c) == (CHOOSE i \in 1..16 : HexChars[i] = UpperChar(c)) - 1

RECURSIVE HexInt(_)
HexInt(s) ==
    IF Len(s) = 0 THEN 0
    ELSE HexInt(SubSeq(s, 1, Len(s) - 1)) * 16 + HexVal(s[Len(s)])

\* int(s, 16) of a non-empty text without blanks: its value when every
\* character is a hex digit of either case, a ValueError otherwise.  (A sign,
\* a 0x prefix and underscores, which int() also reads, occur in no output of
\* the model.)  Python integers are unbounded; the values of the model stay
\* below 2^31.
PyIntHex(s) ==
    IF \A i \in 1..Len(s) : IsHexChar(s[i])
    THEN Return(HexInt(s))
    ELSE Raise("ValueError", "invalid literal for int() with base 16")

\* A line of the output is the text lhs, followed by ' = ' and the text rhs
\* when rhs is not empty.  The pattern '^<address> = (\S+)' matches a line
\* whose lhs is the address text and whose rhs is not empty.
LineMatches_CaseSensitive(line, address) ==
    /\ line.lhs = address
    /\ line.rhs # <<>>

LineMatches(line, address) ==
    /\ EqIgnoreCase(line.lhs, address)
    /\ line.rhs # <<>>

\* re.search(pattern, output, re.IGNORECASE | re.MULTILINE): group 1 of the
\* first matching line, or no match.
RegisterMatch(output, address) ==
    LET at == {i \in 1..Len(output) : LineMatches(output[i], address)}
    IN  IF at = {} THEN <<>>
        ELSE <<output[CHOOSE i \in at : \A j \in at : i <= j].rhs>>

\* JLink._readmem, the command list.
JLink_readmem_commands(address, command) ==
    << [cmd |-> command, path |-> <<>>, addr |-> Format08X(address), fmt |-> "1"],
       Cmd("q") >>

\* A parse that defaults to zero when no line matches.
JLink_readmem_output_DefaultZero(output, address) ==
    LET match == RegisterMatch(output, Format08X(address))
    IN  IF match # <<>> THEN PyIntHex(match[1])
        ELSE Return(0)

\* JLink._readmem, the parse of the output.
JLink_readmem_output(output, address) ==
    LET match == RegisterMatch(output, Format08X(address))
    IN  IF match # <<>> THEN PyIntHex(match[1])
        ELSE Raise("AdaLinkError", MsgNoMem)

JLink_readmem(address, command, p) ==
    LET out == JLink_run_commands(JLink_readmem_commands(address, command), p)
    IN  IF out.kind = "raise" THEN out ELSE JLink_readmem_output(out.value, address)

JLink_readmem32(address, p) == JLink_readmem(address, "mem32", p)

JLink_readmem16(address, p) == JLink_readmem(address, "mem16", p)

JLink_readmem8(address, p) == JLink_readmem(address, "mem8", p)

readmem(width, address, p) ==
    CASE width = 8 -> JLink_readmem8(address, p)
      [] width = 16 -> JLink_readmem16(address, p)
      [] width = 32 -> JLink_readmem32(address, p)

\* ----------------------------------------------- inputs of the readmem calls

\* Most lines in the output of a memory read.
MaxOutLines == 2

\* 0x0080A00E and 0x41002018, registers of the info report.
Addresses == {8429582, 1090527256}

\* 0x0, 0xAB, 0x1FF, 0x3F2A
Values == {0, 171, 511, 16170}

Widths == {8, 16, 32}

Line(l, r) == [lhs |-> l, rhs |-> r]

\* The line '<address as 8 hex digits> = <value in hex>', in upper or lower case.
FormedLine(a, v, lower) ==
    IF lower THEN Line(LowerText(Format08X(a)), LowerText(FormatX(v)))
    ELSE Line(Format08X(a), FormatX(v))

ReadLines ==
    {FormedLine(a, v, lower) : a \in Addresses, v \in Values, lower \in BOOLEAN}
        \cup {Line(Format08X(a), r) : a \in Addresses, r \in {<<>>, <<"-", "-">>}}
        \cup {Line(<<"J", "-", "L", "i", "n", "k", ">">>, <<>>)}

ReadProcs ==
    [timedOut : {FALSE}, output : SeqsUpTo(ReadLines, MaxOutLines)]
        \cup {[timedOut |-> TRUE, output |-> <<>>]}

InitReadmem ==
    /\ phase = "called"
    /\ call \in [op : {"readmem"}, variant : {"JLink"}, width : Widths,
                 address : Addresses]
    /\ proc \in ReadProcs
    /\ script = <<>>
    /\ result = NoResult
    /\ IdleInvocation

\* One call of JLink.readmem8 / readmem16 / readmem32.
Readmem ==
    /\ phase = "called"
    /\ call.op = "readmem"
    /\ script' = JLink_readmem_commands(call.address,
                    CASE call.width = 8 -> "mem8"
                      [] call.width = 16 -> "mem16"
                      [] call.width = 32 -> "mem32")
    /\ result' = readmem(call.width, call.address, proc)
    /\ phase' = "returned"
    /\ UNCHANGED <<host, files, procs, call, proc, args, pc, calls, raised, stdout, exit>>

NextReadmem == Readmem

SpecReadmem == InitReadmem /\ [][NextReadmem]_vars

\* ------------------------------------------ the other programmer operations

MsgMissing == "'{0}' missing. Is the J-Link folder in your system path?"

MsgAmbiguous == "Only one read memory command can be specified at a time."

MsgUnsupported == "Unsupported system: {0}"

\* The values of platform.system() the model holds.
Systems == {"Linux", "Windows", "MINGW64_NT-10.0", "Darwin", "FreeBSD"}

\* "MINGW" in system
ContainsMINGW(system) == system \in {"MINGW64_NT-10.0"}

\* JLink.__init__, lines 55-64: the name of the executable on the platform,
\* None where the constructor knows none.
jlink_exe(system) ==
    IF system = "Linux" THEN "JLinkExe"
    ELSE IF system = "Windows" \/ ContainsMINGW(system) THEN "JLink.exe"
    ELSE IF system = "Darwin" THEN "JLinkExe"
    ELSE None

\* subprocess.Popen([path, ...]): an OSError when the path does not resolve.
Popen(h) == IF h.exe THEN Return(None) ELSE Raise("OSError", "No such file or directory")

\* A constructor that looks for the executable only when it runs a script.
JLink_test_jlinkexe_Lazy(h) == Return(None)

\* JLink._test_jlinkexe: the executable is spawned once on a script of 'q';
\* an OSError of the spawn becomes the missing-executable error.
JLink_test_jlinkexe(h) ==
    IF Popen(h).kind = "raise" THEN Raise("AdaLinkError", MsgMissing)
    ELSE Return(None)

\* JLink.__init__
JLink_init(h) ==
    IF jlink_exe(h.system) = None THEN Raise("AdaLinkError", MsgUnsupported)
    ELSE LET t == JLink_test_jlinkexe(h)
         IN  IF t.kind = "raise" THEN t ELSE Return("JLink")

\* JLink.wipe
JLink_wipe_commands == <<Cmd("r"), Cmd("erase"), Cmd("r"), Cmd("q")>>

JLink_wipe(p) ==
    LET out == JLink_run_commands(JLink_wipe_commands, p)
    IN  IF out.kind = "raise" THEN out ELSE Return(None)

\* wipe of the four OpenOCD-based programmers
OpenOCD_wipe_commands ==
    <<Cmd("init"), Cmd("reset init"), Cmd("at91samd chip-erase"), Cmd("exit")>>

OpenOCD_wipe(p) ==
    LET out == OpenOCD_run_commands(OpenOCD_wipe_commands, p)
    IN  IF out.kind = "raise" THEN out ELSE Return(None)

\* The constructor, is_connected and readmem of the OpenOCD base programmers
\* (programmers/stlink.py, programmers/raspi2.py).
OpenOCD_init(variant, exeFound) ==
    IF exeFound THEN Return(variant)
    ELSE Raise("AdaLinkError", "openocd missing")

OpenOCD_is_connected_commands == <<Cmd("init"), Cmd("exit")>>

OpenOCD_is_connected(p) ==
    LET out == OpenOCD_run_commands(OpenOCD_is_connected_commands, p)
    IN  IF out.kind = "raise" THEN out
        ELSE Return(\E i \in 1..Len(out.value) : out.value[i].kind = "Found")

OpenOCD_readmem_commands(address) ==
    << Cmd("init"),
       [cmd |-> "read", path |-> <<>>, addr |-> Format08X(address), fmt |-> "1"],
       Cmd("exit") >>

OpenOCD_readmem(address, p) ==
    LET out == OpenOCD_run_commands(OpenOCD_readmem_commands(address), p)
    IN  IF out.kind = "raise" THEN out
        ELSE JLink_readmem_output(out.value, address)

\* The operations as Core._callback calls them on the programmer it created.
programmer_is_connected(variant, p) ==
    IF variant = "JLink" THEN JLink_is_connected(p) ELSE OpenOCD_is_connected(p)

programmer_wipe(variant, p) ==
    IF variant = "JLink" THEN JLink_wipe(p) ELSE OpenOCD_wipe(p)

programmer_readmem(variant, width, address, p) ==
    IF variant = "JLink" THEN readmem(width, address, p)
    ELSE OpenOCD_readmem(address, p)

\* The command lists of these operations.
programmer_is_connected_commands(variant) ==
    IF variant = "JLink" THEN JLink_is_connected_commands
    ELSE OpenOCD_is_connected_commands

programmer_wipe_commands(variant) ==
    IF variant = "JLink" THEN JLink_wipe_commands ELSE OpenOCD_wipe_commands

programmer_readmem_commands(variant, width, address) ==
    IF variant = "JLink"
    THEN JLink_readmem_commands(address,
            CASE width = 8 -> "mem8" [] width = 16 -> "mem16" [] width = 32 -> "mem32")
    ELSE OpenOCD_readmem_commands(address)

\* ------------------------------------------------ Core._callback and main

Cores == {"samd21", "atsamd21g18"}

\* SAMD21.list_programmers, ATSAMD21G18.list_programmers
list_programmers == {"jlink", "stlink", "raspi2"}

\* SAMD21.create_programmer: the class of the programmer.
SAMD21_create_programmer(programmer) ==
    CASE programmer = "jlink" -> "JLink"
      [] programmer = "stlink" -> "STLink_SAMD21"
      [] programmer = "raspi2" -> "RasPi2_SAMD21"

\* ATSAMD21G18.create_programmer: the class of the programmer.
ATSAMD21G18_create_programmer(programmer) ==
    CASE programmer = "jlink" -> "JLink"
      [] programmer = "stlink" -> "STLink_ATSAMD21G18"
      [] programmer = "raspi2" -> "RasPi2_ATSAMD21G18"

create_programmer(core, programmer, h) ==
    LET variant == IF core = "samd21" THEN SAMD21_create_programmer(programmer)
                   ELSE ATSAMD21G18_create_programmer(programmer)
    IN  IF variant = "JLink" THEN JLink_init(h)
        ELSE OpenOCD_init(variant, h.exe)

\* SAMD21.info, ATSAMD21G18.info: the reads of the report, in order:
\* eight 16-bit words of the serial number, then the 8-bit device selection.
InfoReads ==
    << [width |-> 16, address |-> 8429582], [width |-> 16, address |-> 8429580],
       [width |-> 16, address |-> 8429634], [width |-> 16, address |-> 8429632],
       [width |-> 16, address |-> 8429638], [width |-> 16, address |-> 8429636],
       [width |-> 16, address |-> 8429642], [width |-> 16, address |-> 8429640],
       [width |-> 8, address |-> 1090527256] >>

\* An entry of the log of operations: the operation, its arguments, who asked
\* for it, and what it returned or raised.
Op(o, r) ==
    [op |-> o, hex_files |-> <<>>, bin_files |-> <<>>, width |-> 0, address |-> 0,
     by |-> "callback", result |-> r]

ProgramOp(hex_files, bin_files, r) ==
    [Op("program", r) EXCEPT !.hex_files = hex_files, !.bin_files = bin_files]

ReadOp(width, address, by, r) ==
    [Op("readmem", r) EXCEPT !.width = width, !.address = address, !.by = by]

\* A line of stdout.
Printed(what, msg, chars) == [what |-> what, msg |-> msg, chars |-> chars]

\* print('0x{0:0X}'.format(value))
PrintValue(value) == Printed("value", "", <<"0", "x">> \o FormatX(value))

\* The step of Core._callback that follows a step, with wipe after program.
StepAfter_ProgramFirst(step) ==
    CASE step = "create" -> "connect"
      [] step = "connect" -> "program"
      [] step = "program" -> "wipe"
      [] step = "wipe" -> "info"
      [] step = "info" -> "read"
      [] step = "read" -> "return"

\* An order with the read step, and its test of the read requests, right after
\* the connection check.
StepAfter_ReadFirst(step) ==
    CASE step = "create" -> "connect"
      [] step = "connect" -> "read"
      [] step = "read" -> "wipe"
      [] step = "wipe" -> "program"
      [] step = "program" -> "info"
      [] step = "info" -> "return"

\* The step of Core._callback that follows a step.
StepAfter(step) ==
    CASE step = "create" -> "connect"
      [] step = "connect" -> "wipe"
      [] step = "wipe" -> "program"
      [] step = "program" -> "info"
      [] step = "info" -> "read"
      [] step = "read" -> "return"

\* ----------------------------------------------- inputs of the invocations

\* The value the invocation's reads find, 0xAB.
ReadValue == {171}

\* Tool behaviours of one step of an invocation.
CallbackConnectProcs ==
    {[timedOut |-> TRUE, output |-> <<>>]} \cup
    [timedOut : {FALSE},
     output : {<<Tok("Found"), VTref(<<"3", ".", "3">>)>>,
               <<Tok("FoundOther"), VTref(<<"3", ".", "3">>)>>,
               <<Tok("Found"), VTref(<<"0", ".", "0", "0", "0">>)>>,
               <<Tok("Found"), VTref(<<"1", ".", "2", ".", "3">>)>>,
               <<Tok("FAILED")>>,
               <<Tok("Found")>>}]

CallbackWipeProcs ==
    {[timedOut |-> TRUE, output |-> <<>>], [timedOut |-> FALSE, output |-> <<>>]}

\* Outputs with k lines that start with 'verified ', k up to the images asked.
RECURSIVE VerifiedOutput(_)
VerifiedOutput(k) ==
    IF k = 0 THEN <<>>
    ELSE VerifiedOutput(k - 1) \o << <<"verified ", "4096 bytes in 0.5s">> >>

CallbackProgramProcs(n) ==
    {[timedOut |-> TRUE, output |-> <<>>]} \cup
    [timedOut : {FALSE}, output : {VerifiedOutput(k) : k \in {0, n}}]

CallbackReadProcs(address) ==
    {[timedOut |-> TRUE, output |-> <<>>]} \cup
    [timedOut : {FALSE},
     output : {<<FormedLine(address, v, FALSE)>> : v \in ReadValue}
              \cup {<<>>, <<Line(Format08X(address), <<"-", "-">>)>>}]

ReadArgs == {<<>>, <<8429582>>, <<1090527256>>}

HelpArgs ==
    [core |-> "none", programmer |-> "none", wipe |-> FALSE, info |-> FALSE,
     program_hex |-> <<>>, program_bin |-> <<>>,
     read_mem_8 |-> <<>>, read_mem_16 |-> <<>>, read_mem_32 |-> <<>>]

\* The command lines: argparse yields None (here the empty sequence) for an
\* option that was not given.
CommandLines ==
    [core : Cores, programmer : list_programmers, wipe : BOOLEAN, info : BOOLEAN,
     program_hex : SeqsUpTo(HexFileNames, MaxFiles),
     program_bin : SeqsUpTo({<<"c.bin", 8192>>}, MaxFiles),
     read_mem_8 : ReadArgs, read_mem_16 : ReadArgs, read_mem_32 : ReadArgs]
        \cup {HelpArgs}

\* The machines: every platform, with and without the executable.
Hosts == [system : Systems, exe : BOOLEAN]

\* The machines of the invocations: a platform the constructor knows and one
\* it does not know.
CallbackHosts == [system : {"Linux", "FreeBSD"}, exe : BOOLEAN]

IdleCall ==
    /\ phase = "idle"
    /\ call = NoCall
    /\ proc = NoProc
    /\ script = <<>>
    /\ result = NoResult

Init ==
    /\ host \in CallbackHosts
    /\ files = NoFiles
    /\ procs = <<>>
    /\ args \in CommandLines
    /\ pc = "main"
    /\ calls = <<>>
    /\ raised = NoResult
    /\ stdout = <<>>
    /\ exit = -1
    /\ IdleCall

\* The step ends with the exception r: main's handler is next.
Throw(r) ==
    /\ raised' = r
    /\ pc' = "except"

\* main, lines 57-63, without a subcommand: the help is printed.
MainHelp ==
    /\ pc = "main"
    /\ args.core = "none"
    /\ stdout' = Append(stdout, Printed("help", "", <<>>))
    /\ pc' = "return"
    /\ UNCHANGED <<host, files, procs, phase, call, proc, script, result, args, calls, raised, exit>>

\* main calls args.func(args); Core._callback creates the programmer.
CallbackCreate ==
    /\ pc = "main"
    /\ args.core # "none"
    /\ LET r == create_programmer(args.core, args.programmer, host)
       IN  /\ calls' = Append(calls, Op("create", r))
           /\ IF r.kind = "raise" THEN Throw(r)
              ELSE /\ pc' = StepAfter("create")
                   /\ UNCHANGED raised
    /\ UNCHANGED <<host, files, procs, phase, call, proc, script, result, args, stdout, exit>>

\* The class of the programmer the callback created.
Programmer == calls[1].result.value

\* Core._callback, lines 54-55.
CallbackConnect ==
    /\ pc = "connect"
    /\ \E p \in CallbackConnectProcs :
        LET r == programmer_is_connected(Programmer, p)
            g == ConnectGate(r)
        IN  /\ calls' = Append(calls, Op("is_connected", r))
            /\ IF g.kind = "raise" THEN Throw(g)
               ELSE /\ pc' = StepAfter("connect")
                    /\ UNCHANGED raised
    /\ script' = programmer_is_connected_commands(Programmer)
    /\ UNCHANGED <<host, files, procs, phase, call, proc, result, args, stdout, exit>>

\* Core._callback, lines 57-58.
CallbackWipe ==
    /\ pc = "wipe"
    /\ IF args.wipe
       THEN \E p \in CallbackWipeProcs :
            LET r == programmer_wipe(Programmer, p)
            IN  /\ calls' = Append(calls, Op("wipe", r))
                /\ script' = programmer_wipe_commands(Programmer)
                /\ IF r.kind = "raise" THEN Throw(r)
                   ELSE /\ pc' = StepAfter("wipe")
                        /\ UNCHANGED raised
       ELSE /\ pc' = StepAfter("wipe")
            /\ UNCHANGED <<calls, raised, script>>
    /\ UNCHANGED <<host, files, procs, phase, call, proc, result, args, stdout, exit>>

\* A test that looks at the hex images alone.
ImagesRequested_HexOnly(program_hex, program_bin) == Len(program_hex) > 0

\* Core._callback, line 63.
ImagesRequested(program_hex, program_bin) ==
    Len(program_hex) > 0 \/ Len(program_bin) > 0

\* Core._callback, lines 60-64; the OpenOCD-based program() prints a warning
\* before it builds its script.
CallbackProgram ==
    /\ pc = "program"
    /\ LET program_hex == args.program_hex
           program_bin == args.program_bin
       IN  IF ImagesRequested(program_hex, program_bin)
           THEN \E p \in CallbackProgramProcs(Len(program_hex) + Len(program_bin)) :
                LET r == program(Programmer, program_hex, program_bin, p)
                IN  /\ calls' = Append(calls, ProgramOp(program_hex, program_bin, r))
                    /\ script' = program_commands(Programmer, program_hex, program_bin)
                    /\ stdout' = IF Programmer = "JLink" THEN stdout
                                 ELSE Append(stdout, Printed("warning", "", <<>>))
                    /\ IF r.kind = "raise" THEN Throw(r)
                       ELSE /\ pc' = StepAfter("program")
                            /\ UNCHANGED raised
           ELSE /\ pc' = StepAfter("program")
                /\ UNCHANGED <<calls, raised, stdout, script>>
    /\ UNCHANGED <<host, files, procs, phase, call, proc, result, args, exit>>

\* The log entries of the first n reads of the info report, the last of them
\* with the result r, the ones before it with a value read.
InfoOps(n, r) ==
    [i \in 1..n |->
        ReadOp(InfoReads[i].width, InfoReads[i].address, "info",
               IF i = n THEN r ELSE Return(CHOOSE v \in ReadValue : TRUE))]

\* Core._callback, lines 66-67, with info() of the core: the serial number is
\* printed after its eight reads, the device name after the ninth; a read that
\* raises ends the report.  The text of the report is not kept.
CallbackInfo ==
    /\ pc = "info"
    /\ IF args.info
       THEN \E n \in 1..Len(InfoReads) :
            \E p \in CallbackReadProcs(InfoReads[n].address) :
            LET r == programmer_readmem(Programmer, InfoReads[n].width,
                                        InfoReads[n].address, p)
            IN  /\ n < Len(InfoReads) => r.kind = "raise"
                /\ calls' = Append(calls, Op("info", Return(None))) \o InfoOps(n, r)
                /\ script' = programmer_readmem_commands(Programmer,
                                InfoReads[n].width, InfoReads[n].address)
                /\ stdout' =
                      IF n < Len(InfoReads) THEN stdout
                      ELSE IF r.kind = "raise"
                           THEN Append(stdout, Printed("info", "Serial No.", <<>>))
                           ELSE stdout \o <<Printed("info", "Serial No.", <<>>),
                                            Printed("info", "Device ID", <<>>)>>
                /\ IF r.kind = "raise" THEN Throw(r)
                   ELSE /\ pc' = StepAfter("info")
                        /\ UNCHANGED raised
       ELSE /\ pc' = StepAfter("info")
            /\ UNCHANGED <<calls, raised, stdout, script>>
    /\ UNCHANGED <<host, files, procs, phase, call, proc, result, args, exit>>

\* The read the callback executes once the ambiguity test has passed: the
\* width that was asked, or none.
RequestedReads ==
    [i \in 1..3 |-> <<args.read_mem_8, args.read_mem_16, args.read_mem_32>>[i]]

RequestedWidth ==
    CASE args.read_mem_8 # <<>> -> 8
      [] args.read_mem_16 # <<>> -> 16
      [] args.read_mem_32 # <<>> -> 32

RequestedAddress ==
    CASE args.read_mem_8 # <<>> -> args.read_mem_8[1]
      [] args.read_mem_16 # <<>> -> args.read_mem_16[1]
      [] args.read_mem_32 # <<>> -> args.read_mem_32[1]

\* A test that lets two read requests pass.
AmbiguousReads_MoreThanTwo(f) == Len(f) > 2

\* Core._callback, line 72.
AmbiguousReads(f) == Len(f) > 1

\* Core._callback, lines 71-82.
CallbackRead ==
    /\ pc = "read"
    /\ LET f == SelectSeq(RequestedReads, LAMBDA x : x # <<>>)
       IN  IF AmbiguousReads(f)
           THEN /\ Throw(Raise("AdaLinkError", MsgAmbiguous))
                /\ UNCHANGED <<calls, stdout, script>>
           ELSE IF Len(f) = 0
           THEN /\ pc' = StepAfter("read")
                /\ UNCHANGED <<calls, raised, stdout, script>>
           ELSE \E p \in CallbackReadProcs(RequestedAddress) :
                LET r == programmer_readmem(Programmer, RequestedWidth,
                                            RequestedAddress, p)
                IN  /\ calls' = Append(calls,
                            ReadOp(RequestedWidth, RequestedAddress, "callback", r))
                    /\ script' = programmer_readmem_commands(Programmer,
                                    RequestedWidth, RequestedAddress)
                    /\ IF r.kind = "raise"
                       THEN /\ Throw(r)
                            /\ UNCHANGED stdout
                       ELSE /\ stdout' = Append(stdout, PrintValue(r.value))
                            /\ pc' = StepAfter("read")
                            /\ UNCHANGED raised
    /\ UNCHANGED <<host, files, procs, phase, call, proc, result, args, exit>>

\* main returns after the callback returned: the process ends with status 0.
MainReturn ==
    /\ pc = "return"
    /\ exit' = 0
    /\ pc' = "exited"
    /\ UNCHANGED <<host, files, procs, phase, call, proc, script, result, args, calls, raised, stdout>>

\* main, lines 59-61: an AdaLinkError is printed and main returns; any other
\* exception leaves main and the interpreter ends with status 1.
MainExcept ==
    /\ pc = "except"
    /\ IF raised.exc = "AdaLinkError"
       THEN /\ stdout' = Append(stdout, Printed("error", raised.msg, <<>>))
            /\ exit' = 0
       ELSE /\ exit' = 1
            /\ UNCHANGED stdout
    /\ pc' = "exited"
    /\ UNCHANGED <<host, files, procs, phase, call, proc, script, result, args, calls, raised>>

Next ==
    \/ MainHelp
    \/ CallbackCreate
    \/ CallbackConnect
    \/ CallbackWipe
    \/ CallbackProgram
    \/ CallbackInfo
    \/ CallbackRead
    \/ MainReturn
    \/ MainExcept

Spec == Init /\ [][Next]_vars

\* ------------------------------- the script files and the tool processes
\* One JLink object, from its construction on: the steps of __init__ with
\* _test_jlinkexe, and of every run_commands with run_filename.

\* Most calls of run_commands on the object.
MaxRuns == 2

\* The names tempfile can give: more than the object ever needs.
FileNames == 1..(MaxRuns + 2)

\* A variant that may hand out a name that is already taken.
NamedTemporaryFile_AnyName(existing) == FileNames

\* tempfile.NamedTemporaryFile(mode='w', delete=False): a file of a name no
\* existing file has, opened exclusively, empty and open for writing.
NamedTemporaryFile(existing) == FileNames \ existing

\* '\n'.join(commands): the commands with the separator between them.
RECURSIVE PyJoin(_)
PyJoin(commands) ==
    IF Len(commands) = 0 THEN <<>>
    ELSE IF Len(commands) = 1 THEN commands
    ELSE <<commands[1], Cmd("\n")>> \o PyJoin(Tail(commands))

\* The files with file f under the name n.
WithFile(fs, n, f) == [m \in DOMAIN fs \cup {n} |-> IF m = n THEN f ELSE fs[m]]

\* subprocess.Popen([path, ..., filename]): a child process that runs the file.
Spawned(n) == [file |-> n, state |-> "running"]

\* The process of the call under way: the last one spawned.
Exited(ps) == [ps EXCEPT ![Len(ps)].state = "exited"]

\* The command lists the operations of a JLink programmer hand to run_commands.
RunScripts ==
    {JLink_is_connected_commands, JLink_wipe_commands,
     JLink_readmem_commands(8429582, "mem16"),
     JLink_program_commands(<<"a.hex">>, <<>>)}

\* What the process does within communicate(timeout=timeout_sec): it is still
\* running at the expiry, or it has written an output and exited.
RunProcs ==
    {[timedOut |-> TRUE, output |-> <<>>], [timedOut |-> FALSE, output |-> <<>>],
     [timedOut |-> FALSE, output |-> <<Tok("FAILED")>>]}

InitRun ==
    /\ phase = "new"
    /\ call = [op |-> "JLink", commands |-> <<>>, file |-> 0]
    /\ proc = NoProc
    /\ script = <<>>
    /\ result = NoResult
    /\ host \in Hosts
    /\ files = NoFiles
    /\ procs = <<>>
    /\ args = [programmer |-> "none"]
    /\ pc = "idle"
    /\ calls = <<>>
    /\ raised = NoResult
    /\ stdout = <<>>
    /\ exit = -1

\* JLink.__init__, lines 49-72: the path of the executable of the platform.
InitPath ==
    /\ phase = "new"
    /\ IF jlink_exe(host.system) = None
       THEN /\ result' = Raise("AdaLinkError", MsgUnsupported)
            /\ phase' = "failed"
       ELSE /\ phase' = "path"
            /\ UNCHANGED result
    /\ UNCHANGED <<call, proc, script, args, pc, calls, raised, stdout, exit,
                   host, files, procs>>

\* JLink._test_jlinkexe, lines 79-83: the script 'q' is written to a new file.
TestScript ==
    /\ phase = "path"
    /\ \E n \in NamedTemporaryFile(DOMAIN files) :
        /\ files' = WithFile(files, n, [text |-> <<Cmd("q")>>, open |-> FALSE])
        /\ call' = [call EXCEPT !.file = n]
    /\ phase' = "test"
    /\ UNCHANGED <<proc, script, result, args, pc, calls, raised, stdout, exit,
                   host, procs>>

\* JLink._test_jlinkexe, lines 84-89: the executable is spawned and waited for
\* without a time limit; an OSError of the spawn is the missing executable.
TestSpawn ==
    /\ phase = "test"
    /\ IF JLink_test_jlinkexe(host).kind = "raise"
       THEN /\ result' = JLink_test_jlinkexe(host)
            /\ phase' = "failed"
            /\ UNCHANGED procs
       ELSE /\ procs' = Exited(Append(procs, Spawned(call.file)))
            /\ result' = Return("JLink")
            /\ phase' = "ready"
    /\ UNCHANGED <<call, proc, script, args, pc, calls, raised, stdout, exit,
                   host, files>>

\* An operation of the programmer calls run_commands(commands).
RunCall ==
    /\ phase \in {"ready", "returned"}
    /\ Len(calls) < MaxRuns
    /\ \E c \in RunScripts :
        /\ call' = [op |-> "run_commands", commands |-> c, file |-> 0]
        /\ calls' = Append(calls, Op("run_commands", NoResult))
    /\ phase' = "called"
    /\ result' = NoResult
    /\ proc' = NoProc
    /\ UNCHANGED <<script, args, pc, raised, stdout, exit, host, files, procs>>

\* JLink.run_commands, line 120.
RunCreate ==
    /\ phase = "called"
    /\ \E n \in NamedTemporaryFile(DOMAIN files) :
        /\ files' = WithFile(files, n, [text |-> <<>>, open |-> TRUE])
        /\ call' = [call EXCEPT !.file = n]
    /\ phase' = "created"
    /\ UNCHANGED <<proc, script, result, args, pc, calls, raised, stdout, exit,
                   host, procs>>

\* JLink.run_commands, lines 122-123.
RunWrite ==
    /\ phase = "created"
    /\ files' = [files EXCEPT ![call.file].text = @ \o PyJoin(call.commands)]
    /\ phase' = "written"
    /\ UNCHANGED <<call, proc, script, result, args, pc, calls, raised, stdout, exit,
                   host, procs>>

\* JLink.run_commands, line 124.
RunClose ==
    /\ phase = "written"
    /\ files' = [files EXCEPT ![call.file].open = FALSE]
    /\ phase' = "closed"
    /\ UNCHANGED <<call, proc, script, result, args, pc, calls, raised, stdout, exit,
                   host, procs>>

\* JLink.run_commands, line 127, and JLink.run_filename, lines 98-101.
RunSpawn ==
    /\ phase = "closed"
    /\ procs' = Append(procs, Spawned(call.file))
    /\ phase' = "spawned"
    /\ UNCHANGED <<call, proc, script, result, args, pc, calls, raised, stdout, exit,
                   host, files>>

\* JLink.run_filename, lines 104-110: communicate(timeout=timeout_sec) returns
\* the output of a process that has exited; at the expiry it raises and leaves
\* the child running, and run_filename has no statement that ends the child.
RunCommunicate ==
    /\ phase = "spawned"
    /\ \E p \in RunProcs :
        /\ proc' = p
        /\ result' = JLink_run_filename(p)
        /\ procs' = IF p.timedOut THEN procs ELSE Exited(procs)
    /\ calls' = [calls EXCEPT ![Len(calls)].result = result']
    /\ phase' = "returned"
    /\ UNCHANGED <<call, script, args, pc, raised, stdout, exit, host, files>>

NextRun ==
    \/ InitPath
    \/ TestScript
    \/ TestSpawn
    \/ RunCall
    \/ RunCreate
    \/ RunWrite
    \/ RunClose
    \/ RunSpawn
    \/ RunCommunicate

SpecRun == InitRun /\ [][NextRun]_vars

\* ------------------------------------------------ properties of program()

IsLoad(c) == c.cmd \in {"loadfile", "loadbin", "load_image"}

IsVerify(c) == c.cmd \in {"verify_image", "verifybin"}

IsReset(c) == c.cmd \in {"r", "reset init"}

IsQuit(c) == c.cmd \in {"q", "exit"}

\* The images of a request, hex files first, each with its load address.
Images(hex_files, bin_files) ==
    [i \in 1..(Len(hex_files) + Len(bin_files)) |->
        IF i <= Len(hex_files)
        THEN [file |-> hex_files[i], rel |-> TRUE, addr |-> 0]
        ELSE [file |-> bin_files[i - Len(hex_files)][1], rel |-> FALSE,
              addr |-> bin_files[i - Len(hex_files)][2]]]

\* Command c names image img: its file and, for a bin image, its address as
\* 0x and 8 hex digits.
Names(c, img) ==
    /\ Len(c.path) > 0
    /\ c.path[Len(c.path)] = img.file
    /\ IF img.rel THEN c.cmd = "loadfile" \/ c.fmt = "ihex"
       ELSE /\ c.cmd = "loadbin" \/ c.fmt = "bin"
            /\ c.addr = <<"0", "x">> \o Format08X(img.addr)

InOrder(cmds, imgs) ==
    /\ Len(cmds) = Len(imgs)
    /\ \A i \in 1..Len(cmds) : Names(cmds[i], imgs[i])

LoadsBeforeVerifies(s) ==
    \A i, j \in 1..Len(s) : IsLoad(s[i]) /\ IsVerify(s[j]) => i < j

EndsWithRunAndQuit(s) ==
    LET n == Len(s)
    IN  /\ n >= 3
        /\ IsQuit(s[n])
        /\ \/ s[n - 1].cmd = "reset run"
           \/ s[n - 1].cmd = "g" /\ s[n - 2].cmd = "r"

ProgramReturned == phase = "returned" /\ call.op = "program"

\* C2 as stated: the script starts with a reset command, loads the hex and then
\* the bin images in request order, holds every verify command after every load
\* command (in the same order), and ends with reset-and-run and quit.
C2_ScriptStartsWithReset ==
    ProgramReturned =>
        LET imgs == Images(call.hex_files, call.bin_files)
            ver  == SelectSeq(script, IsVerify)
        IN  /\ IsReset(script[1])
            /\ InOrder(SelectSeq(script, IsLoad), imgs)
            /\ LoadsBeforeVerifies(script)
            /\ ver = <<>> \/ InOrder(ver, imgs)
            /\ EndsWithRunAndQuit(script)

\* C2 amended: the script starts with a reset command, which the OpenOCD-based
\* programmers precede by one 'init' command; no load command precedes the reset;
\* the load commands are those of the hex images and then of the bin images in
\* request order; every verify command follows every load command, and those of
\* the OpenOCD-based programmers are in the same order; the script ends with
\* reset-and-run followed by quit/exit.
C2_ScriptOrder ==
    ProgramReturned =>
        LET imgs == Images(call.hex_files, call.bin_files)
            ver  == SelectSeq(script, IsVerify)
            r    == IF call.variant = "JLink" THEN 1 ELSE 2
        IN  /\ IsReset(script[r])
            /\ r = 2 => script[1].cmd = "init"
            /\ \A i \in 1..r : ~IsLoad(script[i]) /\ ~IsVerify(script[i])
            /\ InOrder(SelectSeq(script, IsLoad), imgs)
            /\ LoadsBeforeVerifies(script)
            /\ ver = <<>> \/ InOrder(ver, imgs)
            /\ call.variant \in OpenOCDVariants => InOrder(ver, imgs)
            /\ EndsWithRunAndQuit(script)

\* A script of an OpenOCD-based programmer for two different hex and two
\* different bin images was built.
C2_Witness ==
    /\ ProgramReturned
    /\ call.variant \in OpenOCDVariants
    /\ Len(call.hex_files) = 2 /\ call.hex_files[1] # call.hex_files[2]
    /\ Len(call.bin_files) = 2 /\ call.bin_files[1] # call.bin_files[2]
    /\ Len(SelectSeq(script, IsVerify)) = 4

\* C3: the script of program() with N hex and M bin images holds exactly N+M
\* load commands and exactly N+M verify commands.
C3_LoadAndVerifyCounts ==
    ProgramReturned =>
        LET n == Len(call.hex_files) + Len(call.bin_files)
        IN  /\ Len(SelectSeq(script, IsLoad)) = n
            /\ Len(SelectSeq(script, IsVerify)) = n

\* The number of output lines that start with 'verified '.
VerifiedLines(output) == Len(SelectSeq(output, StartsWithVerified))

\* C4: program() of an OpenOCD-based programmer, asked for at least one image,
\* whose tool wrote an output succeeds iff the output holds N+M lines starting with 'verified ', and fails
\* with the verification error otherwise.
C4_VerifiedCountDecides ==
    (/\ ProgramReturned /\ call.variant \in OpenOCDVariants /\ ~proc.timedOut
     /\ Len(call.hex_files) + Len(call.bin_files) > 0) =>
        IF VerifiedLines(proc.output) = Len(call.hex_files) + Len(call.bin_files)
        THEN result = Return(None)
        ELSE result = Raise("AdaLinkError", MsgVerify)

\* C5: program() asked for at least one image returns normally only if the tool
\* ran to its end and its output confirms every requested image: one line of
\* confirmation for each.
C5_SuccessOnlyIfConfirmed ==
    (/\ ProgramReturned
     /\ Len(call.hex_files) + Len(call.bin_files) > 0
     /\ result.kind = "return") =>
        /\ ~proc.timedOut
        /\ VerifiedLines(proc.output) = Len(call.hex_files) + Len(call.bin_files)

\* ------------------------------------------- properties of is_connected()

ConnectReturned == phase \in {"returned", "gated"} /\ call.op = "is_connected"

\* The readings of the output that are numbers below 1 V.
LowReadings(output) ==
    {i \in 1..Len(output) :
        /\ output[i].kind = "VTref"
        /\ PyFloat(output[i].num).kind = "return"
        /\ PyFloat(output[i].num).value < 1000}

FirstReading(output) ==
    CHOOSE i \in 1..Len(output) :
        /\ output[i].kind = "VTref"
        /\ \A j \in 1..(i - 1) : output[j].kind # "VTref"

HasReading(output) == \E i \in 1..Len(output) : output[i].kind = "VTref"

Holds(output, k) == \E i \in 1..Len(output) : output[i].kind = k

IsError(r, m) == r.kind = "raise" /\ r.exc = "AdaLinkError" /\ r.msg = m

\* C6 as stated: an output with the found-token and a voltage reading below 1 V
\* makes is_connected fail with the low-voltage error, whatever else it holds.
C6_LowVoltageWhateverElse ==
    (ConnectReturned /\ ~proc.timedOut /\ Holds(proc.output, "Found")
        /\ LowReadings(proc.output) # {}) =>
            IsError(result, MsgLowVoltage)

\* C6 amended: an output with the found-token, without the text FAILED, whose
\* first voltage reading is a number below 1 V makes is_connected fail with the
\* low-voltage error: it neither returns false nor raises another error.
C6_LowVoltage ==
    (ConnectReturned /\ ~proc.timedOut /\ Holds(proc.output, "Found")
        /\ ~Holds(proc.output, "FAILED")
        /\ HasReading(proc.output)
        /\ FirstReading(proc.output) \in LowReadings(proc.output)) =>
            /\ IsError(result, MsgLowVoltage)
            /\ phase = "gated" => IsError(raised, MsgLowVoltage)

\* is_connected has answered an output that holds the found-token and a first
\* reading below 1 V, and the caller has seen the answer.
C6_Witness ==
    /\ phase = "gated" /\ call.op = "is_connected" /\ ~proc.timedOut
    /\ Holds(proc.output, "Found") /\ ~Holds(proc.output, "FAILED")
    /\ HasReading(proc.output)
    /\ FirstReading(proc.output) \in LowReadings(proc.output)
    /\ proc.output[1].kind = "Found"

\* C7 as stated: every output without the found-token ends in the not-connected
\* outcome, is_connected false and the caller's not-found error, with or without
\* a voltage token; the no-voltage error needs the voltage token to be absent.
C7_NotFoundWhateverVoltage ==
    (ConnectReturned /\ ~proc.timedOut) =>
        /\ ~Holds(proc.output, "Found") => result = Return(FALSE)
        /\ (phase = "gated" /\ ~Holds(proc.output, "Found")) =>
                IsError(raised, MsgNotFound)
        /\ IsError(result, MsgNoVoltage) => ~HasReading(proc.output)

\* C7 amended: an output without the found-token and without the text FAILED
\* whose first voltage reading is a number of at least 1 V makes is_connected
\* return false, which the caller turns into the not-found error; the no-voltage
\* error is raised only when the output holds no voltage token.
C7_NotFound ==
    (ConnectReturned /\ ~proc.timedOut) =>
        /\ (/\ ~Holds(proc.output, "Found")
            /\ ~Holds(proc.output, "FAILED")
            /\ HasReading(proc.output)
            /\ PyFloat(proc.output[FirstReading(proc.output)].num).kind = "return"
            /\ PyFloat(proc.output[FirstReading(proc.output)].num).value >= 1000) =>
                /\ result = Return(FALSE)
                /\ phase = "gated" => IsError(raised, MsgNotFound)
        /\ IsError(result, MsgNoVoltage) => ~HasReading(proc.output)

\* The caller has turned the false result for an output with a good voltage
\* reading, a 'Found' of another target and no found-token into the not-found
\* error.
C7_Witness ==
    /\ phase = "gated" /\ call.op = "is_connected" /\ ~proc.timedOut
    /\ ~Holds(proc.output, "Found") /\ ~Holds(proc.output, "FAILED")
    /\ HasReading(proc.output)
    /\ \E i \in 1..Len(proc.output) : proc.output[i].kind = "FoundOther"
    /\ result = Return(FALSE)
    /\ IsError(raised, MsgNotFound)

\* ------------------------------------------------ properties of readmem()

ReadReturned == phase = "returned" /\ call.op = "readmem" /\ ~proc.timedOut

\* The address as 8 zero-padded hex digits, upper case.
AddressText(a) == ZeroPad8(FormatX(a))

\* The line starts with '<address> = <value>', in either case.
StartsWithRegister(line, a) ==
    /\ Len(line.lhs) = 8
    /\ \A i \in 1..8 : UpperChar(line.lhs[i]) = AddressText(a)[i]
    /\ line.rhs # <<>>

RegisterLines(output, a) == {i \in 1..Len(output) : StartsWithRegister(output[i], a)}

\* C8: an output without a line that starts with '<address> = <value>' makes
\* the read fail with the parse error; no value, and no 0, is returned.
C8_NoMatchIsParseError ==
    (ReadReturned /\ RegisterLines(proc.output, call.address) = {}) =>
        /\ IsError(result, MsgNoMem)
        /\ result.kind # "return"

\* A read was answered by an output that holds lines, among them the register
\* line of another address, and none of the address read.
C8_Witness ==
    /\ ReadReturned
    /\ RegisterLines(proc.output, call.address) = {}
    /\ \E a \in Addresses : RegisterLines(proc.output, a) # {}
    /\ Len(proc.output) = 2

\* The greatest value of a width, for the widths whose values the model holds.
Fits(v, w) ==
    CASE w = 8 -> v < 256
      [] w = 16 -> v < 65536
      [] w = 32 -> TRUE

\* C9 as stated: when the output contains the line formed of the address and a
\* value v of the width, the read returns v.
C9_RoundTripAnyLine ==
    ReadReturned =>
        \A v \in Values, lower \in BOOLEAN :
            (/\ Fits(v, call.width)
             /\ \E i \in 1..Len(proc.output) :
                    proc.output[i] = FormedLine(call.address, v, lower)) =>
                result = Return(v)

\* C9 amended: when the first line of the output that starts with
\* '<address> = ' is the line formed of the address and a value v of the
\* width, in upper or lower case, the read returns v.
C9_RoundTrip ==
    ReadReturned =>
        \A v \in Values, lower \in BOOLEAN :
            (/\ Fits(v, call.width)
             /\ \E i \in RegisterLines(proc.output, call.address) :
                    /\ \A j \in RegisterLines(proc.output, call.address) : i <= j
                    /\ proc.output[i] = FormedLine(call.address, v, lower)) =>
                result = Return(v)

\* A 16-bit read was answered by an output whose second line is the first
\* register line of the address, formed in lower case of the value 0x3F2A.
C9_Witness ==
    /\ ReadReturned
    /\ call.width = 16
    /\ Len(proc.output) = 2
    /\ RegisterLines(proc.output, call.address) = {2}
    /\ proc.output[2] = FormedLine(call.address, 16170, TRUE)
    /\ result = Return(16170)

\* C10: a value returned by a read fits the width of the read, and a matched
\* field wider than the width makes the read fail.
C10_ResultFitsWidth ==
    (ReadReturned /\ result.kind = "return") => Fits(result.value, call.width)

\* ---------------------------------------------- properties of Core._callback

\* The place of an operation in the order connect-check, wipe, program, info,
\* read; the construction of the programmer comes before them all.
Rank(e) ==
    CASE e.op = "create" -> 0
      [] e.op = "is_connected" -> 1
      [] e.op = "wipe" -> 2
      [] e.op = "program" -> 3
      [] e.op = "info" \/ (e.op = "readmem" /\ e.by = "info") -> 4
      [] e.op = "readmem" /\ e.by = "callback" -> 5

Connected(e) ==
    e.op = "is_connected" /\ e.result.kind = "return" /\ e.result.value = TRUE

\* C1: the operations of an invocation occur in the order is_connected, wipe,
\* program, info, memory read, each step at most once; wipe, program, info and
\* the reads occur only after an is_connected that returned true.
C1_FixedOrder ==
    /\ \A i, j \in 1..Len(calls) : i < j => Rank(calls[i]) <= Rank(calls[j])
    /\ \A i, j \in 1..Len(calls) :
          (i < j /\ calls[i].op = calls[j].op) => calls[i].op = "readmem"
    /\ \A j \in 1..Len(calls) :
          Rank(calls[j]) >= 2 => \E i \in 1..(j - 1) : Connected(calls[i])

\* An invocation has run the connect-check, a wipe, a program, the info report
\* and a read, and has ended.
C1_Witness ==
    /\ pc = "exited"
    /\ \A o \in {"is_connected", "wipe", "program", "info"} :
          \E i \in 1..Len(calls) : calls[i].op = o
    /\ \E i \in 1..Len(calls) : calls[i].op = "readmem" /\ calls[i].by = "callback"

\* ------------------------------- properties of run_commands / run_filename

\* A call of run_commands has returned or failed.
RunReturned == phase = "returned" /\ call.op = "run_commands"

Running(ps) == {i \in 1..Len(ps) : ps[i].state = "running"}

\* C11: when the process is still running at the expiry of the timeout, it is
\* terminated and run_filename fails with the AdaLinkError 'JLink process
\* exceeded timeout!'; after the call has returned or failed, no spawned process
\* is left running.
C11_TimeoutTerminates ==
    RunReturned =>
        /\ proc.timedOut =>
              /\ IsError(result, MsgTimeout)
              /\ procs[Len(procs)].state # "running"
        /\ Running(procs) = {}

\* The commands of a script text, its separators left out.
Lines(text) == SelectSeq(text, LAMBDA c : c.cmd # "\n")

\* The processes that were given file n.
ProcsOf(n) == {i \in 1..Len(procs) : procs[i].file = n}

\* The calls of run_commands that have created their script file.
Created == Len(calls) - (IF phase = "called" THEN 1 ELSE 0)

\* C16: every call of run_commands creates a new script file, so the files on
\* disk are the one of the constructor and one for each call; the file holds
\* all commands and is closed before the process is started; exactly one
\* process is started with it; the file of a process is on disk while the
\* process runs and after; no file is given to a second process.
C16_ScriptFileLifecycle ==
    /\ phase \in {"ready", "called", "created", "written", "closed", "spawned", "returned"} =>
          Cardinality(DOMAIN files) = 1 + Created
    /\ (call.op = "run_commands" /\ phase \in {"created", "written", "closed"}) =>
          /\ call.file \in DOMAIN files
          /\ ProcsOf(call.file) = {}
    /\ (call.op = "run_commands" /\ phase \in {"spawned", "returned"}) =>
          /\ call.file \in DOMAIN files
          /\ ~files[call.file].open
          /\ Lines(files[call.file].text) = call.commands
          /\ Len(files[call.file].text) = 2 * Len(call.commands) - 1
          /\ ProcsOf(call.file) = {Len(procs)}
    /\ \A i \in 1..Len(procs) :
          /\ procs[i].file \in DOMAIN files
          /\ ~files[procs[i].file].open
          /\ ProcsOf(procs[i].file) = {i}

\* The object has run two scripts: the process of the first was still running
\* at the expiry, the second has exited; three files are on disk.
C16_Witness ==
    /\ RunReturned
    /\ Len(calls) = 2
    /\ Len(procs) = 3
    /\ procs[2].state = "running"
    /\ procs[3].state = "exited"
    /\ Cardinality(DOMAIN files) = 3
    /\ Len(call.commands) = 4

\* ------------------------------------------ properties of the construction

\* The platforms for which the constructor builds the path of the executable.
KnownSystem(system) == system \in {"Linux", "Windows", "Darwin", "MINGW64_NT-10.0"}

\* A JLink programmer was asked for, and the callback has tried to create it,
\* on a host where the path the constructor has built does not resolve.
MissingExecutable ==
    /\ args.programmer = "jlink"
    /\ KnownSystem(host.system)
    /\ ~host.exe
    /\ Len(calls) >= 1

\* Only the construction was executed: no is_connected, wipe, program or read.
OnlyCreate == Len(calls) = 1 /\ calls[1].op = "create"

ProgrammerOps == {"is_connected", "wipe", "program", "readmem"}

\* C13: every failure of is_connected, wipe, program and readmem8/16/32, a
\* process timeout, a non-hexadecimal register value, a malformed voltage
\* number and the verification-count check included, reaches the caller as an
\* AdaLinkError, never as another exception.
C13_OnlyClassifiedErrors ==
    \A i \in 1..Len(calls) :
        (calls[i].op \in ProgrammerOps /\ calls[i].result.kind = "raise") =>
            calls[i].result.exc = "AdaLinkError"

\* The invocation has ended on an error of one of its steps.
EndedOnError == pc = "exited" /\ raised.kind = "raise"

\* The operation that failed is the last one executed.
NoLaterStep ==
    \A i \in 1..Len(calls) : calls[i].result.kind = "raise" => i = Len(calls)

\* C14: when a step of an invocation fails with an error, main prints the
\* message of the error, no later step runs, and the process exits with a
\* status other than zero.
C14_ErrorExitsNonZero ==
    EndedOnError =>
        /\ Len(stdout) > 0
        /\ stdout[Len(stdout)].what = "error"
        /\ stdout[Len(stdout)].msg = raised.msg
        /\ NoLaterStep
        /\ exit # 0

\* ------------------------------------------------ properties of the read step

\* The address asked for a width on the command line, if any.
AskedAt(w) ==
    CASE w = 8 -> args.read_mem_8
      [] w = 16 -> args.read_mem_16
      [] w = 32 -> args.read_mem_32

\* The widths asked for on the command line.
Asked == {w \in {8, 16, 32} : AskedAt(w) # <<>>}

\* The reads the callback itself executed, the reads of the info report apart.
StepReads == {i \in 1..Len(calls) : calls[i].op = "readmem" /\ calls[i].by = "callback"}

\* The connection check has succeeded, the steps before the read step have run
\* without an error, and the read step has run.
ReadStepDone ==
    /\ pc \in {"return", "except", "exited"}
    /\ \E i \in 1..Len(calls) : Connected(calls[i])
    /\ \A i \in 1..Len(calls) : calls[i].result.kind = "raise" => i \in StepReads

\* The text 0x followed by the upper-case hex digits of v.
HexText(v) == <<"0", "x">> \o FormatX(v)

\* C15: with two or more read widths asked, no read of the read step is ever
\* executed, and the read step fails with the ambiguous-request error; with
\* exactly one width asked, the read step executes exactly one read, of that
\* width at the address given, and prints the value it returned.
C15_OneReadWidth ==
    /\ Cardinality(Asked) >= 2 =>
          /\ StepReads = {}
          /\ pc # "return"
          /\ ReadStepDone =>
                /\ IsError(raised, MsgAmbiguous)
                /\ \A k \in 1..Len(stdout) : stdout[k].what # "value"
    /\ Cardinality(Asked) = 1 =>
          /\ Cardinality(StepReads) <= 1
          /\ \A i \in StepReads :
                /\ i = Len(calls)
                /\ calls[i].width \in Asked
                /\ <<calls[i].address>> = AskedAt(calls[i].width)
          /\ ReadStepDone =>
                /\ Cardinality(StepReads) = 1
                /\ \A i \in StepReads :
                      IF calls[i].result.kind = "return"
                      THEN /\ stdout[Len(stdout)].what = "value"
                           /\ stdout[Len(stdout)].chars = HexText(calls[i].result.value)
                           /\ raised = NoResult
                      ELSE raised = calls[i].result
    /\ Cardinality(Asked) = 0 => StepReads = {}

\* An invocation that asked for a wipe, the info report and the widths 8 and
\* 32 has run up to the read step and has ended on the ambiguous-request
\* error, after the reads of the report and without a read of its own.
C15_Witness ==
    /\ Asked = {8, 32}
    /\ args.wipe /\ args.info
    /\ pc = "exited"
    /\ ReadStepDone
    /\ IsError(raised, MsgAmbiguous)
    /\ Len(calls) > 3

\* An invocation that asked for the width 16 alone, at 0x41002018, has printed
\* the value 0xAB that its one read returned.
C15_WitnessOne ==
    /\ Asked = {16}
    /\ pc = "exited"
    /\ Cardinality(StepReads) = 1
    /\ calls[Len(calls)].address = 1090527256
    /\ Len(stdout) > 0
    /\ stdout[Len(stdout)].chars = <<"0", "x", "A", "B">>

\* ------------------------------------ properties of the wipe and program steps

\* The executions of an operation in the invocation.
CallsOf(o) == {i \in 1..Len(calls) : calls[i].op = o}

HasConnected == \E i \in 1..Len(calls) : Connected(calls[i])

\* The number of images asked for on the command line.
AskedImages == Len(args.program_hex) + Len(args.program_bin)

\* The wipe step has run; the program step has run, the wipe before it
\* without an error.
WipeStepDone == HasConnected /\ pc # "wipe"

ProgramStepDone ==
    /\ HasConnected
    /\ pc \notin {"wipe", "program"}
    /\ \A i \in CallsOf("wipe") : calls[i].result.kind = "return"

\* C17: in an invocation whose connection check has succeeded, wipe is called
\* once if the wipe flag is set and never otherwise; program is called once,
\* with all hex images and all bin images in the order of the request, if an
\* image was asked for, and never otherwise: then no script with a load
\* command is run.
C17_WipeAndProgramOnce ==
    /\ Cardinality(CallsOf("wipe")) <= 1
    /\ Cardinality(CallsOf("program")) <= 1
    /\ CallsOf("wipe") # {} => args.wipe /\ HasConnected
    /\ WipeStepDone => (Cardinality(CallsOf("wipe")) = 1 <=> args.wipe)
    /\ \A i \in CallsOf("program") :
          /\ HasConnected
          /\ AskedImages > 0
          /\ calls[i].hex_files = args.program_hex
          /\ calls[i].bin_files = args.program_bin
          /\ i = Len(calls) =>
                InOrder(SelectSeq(script, IsLoad),
                        Images(args.program_hex, args.program_bin))
    /\ ProgramStepDone => (Cardinality(CallsOf("program")) = 1 <=> AskedImages > 0)
    /\ AskedImages = 0 =>
          /\ CallsOf("program") = {}
          /\ \A k \in 1..Len(script) : ~IsLoad(script[k])

\* An invocation with the wipe flag, two different hex images and a bin image
\* has wiped once and programmed once, and has ended without an error.
C17_Witness ==
    /\ pc = "exited"
    /\ raised = NoResult
    /\ args.wipe
    /\ Len(args.program_hex) = 2 /\ args.program_hex[1] # args.program_hex[2]
    /\ Len(args.program_bin) = 1
    /\ Cardinality(CallsOf("wipe")) = 1
    /\ Cardinality(CallsOf("program")) = 1

\* An invocation with bin images alone has programmed them.
C17_WitnessBin ==
    /\ pc = "exited"
    /\ raised = NoResult
    /\ ~args.wipe
    /\ args.program_hex = <<>>
    /\ Len(args.program_bin) = 2
    /\ Cardinality(CallsOf("program")) = 1
    /\ CallsOf("wipe") = {}

\* C18: the test that at most one read width is asked runs after the wipe,
\* program and info steps: when the ambiguous-request error is raised, the
\* connection check has succeeded, the flash was wiped if the wipe flag is
\* set, the images were programmed if any was asked, and the info report was
\* read and printed if asked; before the read step the error is not raised.
C18_AmbiguityCheckedLast ==
    /\ IsError(raised, MsgAmbiguous) =>
          /\ Cardinality(Asked) >= 2
          /\ HasConnected
          /\ args.wipe =>
                \E i \in CallsOf("wipe") : calls[i].result.kind = "return"
          /\ AskedImages > 0 =>
                \E i \in CallsOf("program") :
                    /\ calls[i].result.kind = "return"
                    /\ calls[i].hex_files = args.program_hex
                    /\ calls[i].bin_files = args.program_bin
          /\ args.info =>
                /\ CallsOf("info") # {}
                /\ Cardinality({i \in CallsOf("readmem") :
                        calls[i].by = "info" /\ calls[i].result.kind = "return"}) = 9
                /\ Cardinality({k \in 1..Len(stdout) : stdout[k].what = "info"}) = 2
    /\ (Cardinality(Asked) >= 2 /\ pc \in {"main", "connect", "wipe", "program", "info", "read"}) =>
          raised = NoResult

\* An invocation with the wipe flag, an image, the info flag and three read
\* widths has wiped and programmed the flash and printed the report, and has
\* then ended on the ambiguous-request error.
C18_Witness ==
    /\ pc = "exited"
    /\ IsError(raised, MsgAmbiguous)
    /\ Asked = {8, 16, 32}
    /\ args.wipe /\ args.info /\ AskedImages > 0
    /\ CallsOf("wipe") # {} /\ CallsOf("program") # {}
    /\ stdout[Len(stdout)] = Printed("error", MsgAmbiguous, <<>>)

====
